---- MODULE Spec2Model ----
(***************************************************************************)
(* Model of scripts/export_labse.py: the export of an encoder checkpoint   *)
(* to an ONNX graph plus a tokenizer bundle and a manifest.                *)
(*                                                                         *)
(* Text is modelled as a sequence of one-character strings, a file of text *)
(* as a sequence of lines, and the output directory as a function from     *)
(* file names to contents.                                                 *)
(***************************************************************************)
EXTENDS Integers, Sequences, FiniteSets, TLC

VARIABLES
    pc,              \* the statement of main() to execute next
    run,             \* how many times the script has been started
    dir,             \* contents of the output directory
    startDir,        \* the directory as the current run found it
    max_len,         \* args.max_len
    task,            \* local `task`
    resolved,        \* the task label whose lookup produced onnx_config_cls
    lookups,         \* task labels passed to FeaturesManager.get_config, in order
    vocab,           \* local `vocab` of the fallback block
    fallback,        \* what the fallback block did in the current run
    stages,          \* pipeline stages entered by the current run, in order
    writes,          \* files written by the current run, in order, with the writer
    errors,          \* statements of the current run that raised
    nativeOutcome,   \* what tokenizer.save_pretrained does on this host
    fallbackOutcome  \* what the tokenizers library does on this host

vars == <<pc, run, dir, startDir, max_len, task, resolved, lookups, vocab,
          fallback, stages, writes, errors, nativeOutcome, fallbackOutcome>>

----------------------------------------------------------------------------
(* Bounds *)

MaxRuns == 2
MaxLines == 2
MaxLineLen == 2

(* Program constants *)

DefaultMaxLen == 256

----------------------------------------------------------------------------
(* Text helpers *)

Range(s) == {s[i] : i \in DOMAIN s}

IsSpace(c) == c = " "

IsPunct(c) == c \in {"[", "]", "#"}

CodePoint ==
    [c \in {" ", "#", "C", "E", "K", "L", "N", "P", "S", "U", "[", "]",
            "a", "b", "d", "e", "h", "l", "o", "r", "w"} |->
        CASE c = " " -> 32  [] c = "#" -> 35  [] c = "C" -> 67
          [] c = "E" -> 69  [] c = "K" -> 75  [] c = "L" -> 76
          [] c = "N" -> 78  [] c = "P" -> 80  [] c = "S" -> 83
          [] c = "U" -> 85  [] c = "[" -> 91  [] c = "]" -> 93
          [] c = "a" -> 97  [] c = "b" -> 98  [] c = "d" -> 100
          [] c = "e" -> 101 [] c = "h" -> 104 [] c = "l" -> 108
          [] c = "o" -> 111 [] c = "r" -> 114 [] c = "w" -> 119]

RECURSIVE LStrip(_)
LStrip(s) ==
    IF s # <<>> /\ IsSpace(Head(s)) THEN LStrip(Tail(s)) ELSE s

RECURSIVE RStrip(_)
RStrip(s) ==
    IF s # <<>> /\ IsSpace(s[Len(s)]) THEN RStrip(SubSeq(s, 1, Len(s) - 1)) ELSE s

\* str.strip()
Strip(s) == RStrip(LStrip(s))

----------------------------------------------------------------------------
(* Vocabulary loading, lines 78-82 *)

EmptyVocab == [t \in {} |-> 0]

\* vocab[token] = idx
Put(v, token, idx) ==
    [t \in (DOMAIN v) \cup {token} |-> IF t = token THEN idx ELSE v[t]]

\* Variant that numbers only the lines it keeps.
RECURSIVE LoadVocabDenseFrom(_, _, _)
LoadVocabDenseFrom(lines, idx, v) ==
    IF lines = <<>> THEN v
    ELSE LET token == Strip(Head(lines)) IN
         IF token # <<>>
         THEN LoadVocabDenseFrom(Tail(lines), idx + 1, Put(v, token, idx))
         ELSE LoadVocabDenseFrom(Tail(lines), idx, v)

\* for idx, token in enumerate(line.strip() for line in vf): if token: ...
RECURSIVE LoadVocabFrom(_, _, _)
LoadVocabFrom(lines, idx, v) ==
    IF lines = <<>> THEN v
    ELSE LET token == Strip(Head(lines)) IN
         LoadVocabFrom(Tail(lines), idx + 1,
                       IF token # <<>> THEN Put(v, token, idx) ELSE v)

LoadVocab(lines) == LoadVocabFrom(lines, 0, EmptyVocab)

----------------------------------------------------------------------------
(* Fallback tokenizer construction, lines 83-92 *)

unk == <<"[", "U", "N", "K", "]">>
cls == <<"[", "C", "L", "S", "]">>
sep == <<"[", "S", "E", "P", "]">>
special_tokens == <<unk, cls, sep>>

\* BertPreTokenizer: split at whitespace, every punctuation character is a
\* word of its own.
RECURSIVE Split(_, _, _)
Split(s, cur, out) ==
    LET flushed == IF cur = <<>> THEN out ELSE Append(out, cur) IN
    IF s = <<>> THEN flushed
    ELSE IF IsSpace(Head(s)) THEN Split(Tail(s), <<>>, flushed)
    ELSE IF IsPunct(Head(s)) THEN Split(Tail(s), <<>>, Append(flushed, <<Head(s)>>))
    ELSE Split(Tail(s), Append(cur, Head(s)), out)

PreTokenize(token) == Split(token, <<>>, <<>>)

\* The words the trainer sees: train_from_iterator(vocab, ...) iterates the
\* keys of the dict, each key is one input text.
Words(v) == UNION {Range(PreTokenize(t)) : t \in DOMAIN v}

Alphabet(words) == UNION {Range(w) : w \in words}

\* A character inside a word becomes the piece "##c".
Continuations(words) ==
    UNION {{<<"#", "#", w[i]>> : i \in 2..Len(w)} : w \in words}

RECURSIVE SortByCodePoint(_)
SortByCodePoint(S) ==
    IF S = {} THEN <<>>
    ELSE LET c == CHOOSE x \in S : \A y \in S : CodePoint[x] <= CodePoint[y]
         IN <<c>> \o SortByCodePoint(S \ {c})

\* WordPiece(vocab=vocab) followed by train_from_iterator(vocab, trainer):
\* training replaces the vocabulary of the model.  The trainer numbers the
\* special tokens first, then the characters of the alphabet in code point
\* order, then the "##" pieces in the iteration order of its word table
\* (tail: their ids follow those of ids, in an order the library does not
\* fix); while the vocabulary is smaller than vocab_size = len(vocab) it
\* appends merged tokens after them (room: the number of such slots).
TrainFromIterator(v) ==
    LET words == Words(v)
        chars == SortByCodePoint(Alphabet(words))
        order == special_tokens \o [i \in 1..Len(chars) |-> <<chars[i]>>]
        ids   == [t \in Range(order) |->
                    (CHOOSE i \in 1..Len(order) : order[i] = t) - 1]
        tail  == Continuations(words) \ Range(order)
        size  == Len(order) + Cardinality(tail)
    IN  [ids |-> ids, tail |-> tail,
         room |-> IF Cardinality(DOMAIN v) > size
                  THEN Cardinality(DOMAIN v) - size ELSE 0]

----------------------------------------------------------------------------
(* The output directory *)

F_onnx    == "encoder.onnx"
F_tok     == "tokenizer.json"
F_cfg     == "tokenizer_config.json"
F_special == "special_tokens_map.json"
F_vocab   == "vocab.txt"
F_meta    == "metadata.json"

FileNames == {F_onnx, F_tok, F_cfg, F_special, F_vocab, F_meta}

\* The three files of the tokenizer bundle
Bundle == {F_tok, F_cfg, F_special}

\* What save_pretrained may write
NativeFiles == {F_vocab, F_tok, F_cfg, F_special}

Absent  == [kind |-> "absent"]
Old     == [kind |-> "old"]        \* a file some earlier program left
Partial == [kind |-> "partial"]    \* a file whose write was cut short
Onnx    == [kind |-> "onnx"]

Exists(d, f) == d[f] # Absent

VocabTxt(lines) == [kind |-> "vocab", lines |-> lines]

ExampleLines ==
    << unk, cls, sep, <<"h", "e", "l", "l", "o">>, <<"w", "o", "r", "l", "d">> >>

\* vocab.txt of the checkpoint, as save_pretrained writes it
NativeLines == << unk, cls, sep, <<"a">>, <<"#", "#", "b">> >>

\* vocabulary files the directory may hold before the first run
VocabFiles ==
    { ExampleLines,
      << <<"a">>, <<>>, <<"b", " ">> >>,
      << <<"a", "b">>, <<"a">>, <<"a", "b">> >> }

Native(f) ==
    IF f = F_vocab THEN VocabTxt(NativeLines) ELSE [kind |-> "native", file |-> f]

\* tokenizer_fast.save(str(tok_json))
FallbackTokenizerJson(model) ==
    [kind |-> "fallback", lowercase |-> FALSE, unk_token |-> unk,
     vocab |-> model.ids, tail |-> model.tail, room |-> model.room]

\* cfg_payload, lines 100-104
CfgPayload(ml) ==
    [kind |-> "cfg", tokenizer_class |-> "BertTokenizerFast",
     do_lower_case |-> FALSE, model_max_length |-> ml]

\* payload, lines 110-116
SpecialMapPayload ==
    [kind |-> "special", unk_token |-> "[UNK]", sep_token |-> "[SEP]",
     pad_token |-> "[PAD]", cls_token |-> "[CLS]", mask_token |-> "[MASK]"]

\* Variant that reports the tokenizer file unconditionally.
ManifestTokenizerAlways(d) == F_tok

\* "tokenizer.json" if (out_dir / "tokenizer.json").exists() else None
ManifestTokenizer(d) == IF Exists(d, F_tok) THEN F_tok ELSE "null"

\* meta, lines 121-131
Meta(d, t) ==
    [kind |-> "meta", feature |-> t,
     files |-> [onnx |-> F_onnx, tokenizer |-> ManifestTokenizer(d)]]

----------------------------------------------------------------------------
(* Control flow of main() *)

\* Variant with the fallback block ahead of save_pretrained.
StepsFallbackFirst ==
    << "LOAD_CHECKPOINT", "RESOLVE_CONFIG", "BUILD_DUMMY_INPUTS", "EXPORT_GRAPH",
       "ENSURE_TOKENIZER_JSON", "SAVE_NATIVE", "ENSURE_TOK_CFG",
       "ENSURE_SPECIAL_MAP", "WRITE_MANIFEST", "DONE" >>

\* The statements of main() in program order
Steps ==
    << "LOAD_CHECKPOINT", "RESOLVE_CONFIG", "BUILD_DUMMY_INPUTS", "EXPORT_GRAPH",
       "SAVE_NATIVE", "ENSURE_TOKENIZER_JSON", "ENSURE_TOK_CFG",
       "ENSURE_SPECIAL_MAP", "WRITE_MANIFEST", "DONE" >>

After(step) == Steps[(CHOOSE i \in 1..Len(Steps) : Steps[i] = step) + 1]

\* The stage of the pipeline a statement belongs to
StageOf(step) ==
    IF step \in {"SAVE_NATIVE", "ENSURE_TOKENIZER_JSON", "ENSURE_TOK_CFG",
                 "ENSURE_SPECIAL_MAP"}
    THEN "RESOLVE_TOKENIZER_ARTIFACTS" ELSE step

Enter(step) ==
    IF stages # <<>> /\ stages[Len(stages)] = StageOf(step)
    THEN stages ELSE Append(stages, StageOf(step))

Wrote(f, by) == Append(writes, [file |-> f, by |-> by])

\* The exit status of the process: an uncaught exception ends it with 1
ExitCode == IF pc = "DONE" THEN 0 ELSE IF pc = "ABORTED" THEN 1 ELSE -1

SecondaryTask == "sequence-classification"

LookupOutcomes == {"ok", "KeyError", "OtherError"}

\* Outcomes of tokenizer.save_pretrained(out_dir): it returns after writing
\* at least the two descriptor files, or raises after writing any of its files.
NativeOutcomes ==
    {[chosen |-> TRUE, ok |-> TRUE, files |-> {F_cfg, F_special} \cup W] :
        W \in SUBSET {F_vocab, F_tok}}
    \cup
    {[chosen |-> TRUE, ok |-> FALSE, files |-> W] : W \in SUBSET NativeFiles}

NoOutcome == [chosen |-> FALSE]

\* Outcomes of the try block of lines 68-93: it completes, it raises before
\* tokenizer_fast.save creates the file, or save raises after creating it.
FallbackOutcomes == {"ok", "early", "partial"}

----------------------------------------------------------------------------
(* Pipeline *)

Init ==
    /\ pc = "LOAD_CHECKPOINT"
    /\ run = 1
    /\ dir \in {d \in [FileNames -> {Absent, Old} \cup {VocabTxt(l) : l \in VocabFiles}] :
                  /\ d[F_vocab] # Old
                  /\ \A f \in FileNames \ {F_vocab} : d[f] \in {Absent, Old}
                  /\ d[F_onnx] = Absent /\ d[F_meta] = Absent}
    /\ startDir = dir
    /\ max_len \in {DefaultMaxLen, 128}
    /\ task = "default"
    /\ resolved = "none"
    /\ lookups = <<>>
    /\ vocab = EmptyVocab
    /\ fallback = "none"
    /\ stages = <<>>
    /\ writes = <<>>
    /\ errors = {}
    /\ nativeOutcome = NoOutcome
    /\ fallbackOutcome = "unset"

Abort(step) ==
    /\ pc' = "ABORTED"
    /\ errors' = errors \cup {step}

\* lines 31-32: from_pretrained of the tokenizer and of the model
LoadCheckpoint ==
    /\ pc = "LOAD_CHECKPOINT"
    /\ stages' = Enter(pc)
    /\ \E ok \in BOOLEAN :
          IF ok THEN pc' = After(pc) /\ UNCHANGED errors
                ELSE Abort(pc)
    /\ UNCHANGED <<run, dir, startDir, max_len, task, resolved, lookups, vocab,
                   fallback, writes, nativeOutcome, fallbackOutcome>>

\* Variant whose except clause catches every exception of the first lookup.
ResolveConfigCatchAll ==
    /\ pc = "RESOLVE_CONFIG"
    /\ stages' = Enter(pc)
    /\ \E primary \in LookupOutcomes, secondary \in LookupOutcomes :
          IF primary = "ok"
          THEN /\ lookups' = <<task>>
               /\ resolved' = task
               /\ pc' = After(pc)
               /\ UNCHANGED errors
          ELSE /\ lookups' = <<task, SecondaryTask>>
               /\ IF secondary = "ok"
                  THEN resolved' = SecondaryTask /\ pc' = After(pc)
                       /\ errors' = errors \cup {IF primary = "KeyError" THEN "PRIMARY_KeyError"
                                                ELSE "PRIMARY_OtherError"}
                  ELSE UNCHANGED resolved /\ Abort(pc)
    /\ UNCHANGED <<run, dir, startDir, max_len, task, vocab, fallback, writes,
                   nativeOutcome, fallbackOutcome>>

\* lines 36-42: get_config(model_type, task), on KeyError
\* get_config(model_type, "sequence-classification")
ResolveConfig ==
    /\ pc = "RESOLVE_CONFIG"
    /\ stages' = Enter(pc)
    /\ \E primary \in LookupOutcomes, secondary \in LookupOutcomes :
          CASE primary = "ok" ->
                 /\ lookups' = <<task>>
                 /\ resolved' = task
                 /\ pc' = After(pc)
                 /\ UNCHANGED errors
            [] primary = "KeyError" ->
                 /\ lookups' = <<task, SecondaryTask>>
                 /\ IF secondary = "ok"
                    THEN /\ resolved' = SecondaryTask
                         /\ pc' = After(pc)
                         /\ errors' = errors \cup {"PRIMARY_KeyError"}
                    ELSE /\ UNCHANGED resolved
                         /\ pc' = "ABORTED"
                         /\ errors' = errors \cup {"PRIMARY_KeyError", pc}
            [] primary = "OtherError" ->
                 /\ lookups' = <<task>>
                 /\ UNCHANGED resolved
                 /\ pc' = "ABORTED"
                 /\ errors' = errors \cup {"PRIMARY_OtherError", pc}
    /\ UNCHANGED <<run, dir, startDir, max_len, task, vocab, fallback, writes,
                   nativeOutcome, fallbackOutcome>>

\* line 47: onnx_config.generate_dummy_inputs
BuildDummyInputs ==
    /\ pc = "BUILD_DUMMY_INPUTS"
    /\ stages' = Enter(pc)
    /\ \E ok \in BOOLEAN :
          IF ok THEN pc' = After(pc) /\ UNCHANGED errors
                ELSE Abort(pc)
    /\ UNCHANGED <<run, dir, startDir, max_len, task, resolved, lookups, vocab,
                   fallback, writes, nativeOutcome, fallbackOutcome>>

\* Variant that goes on after a failed export.
ExportGraphLenient ==
    /\ pc = "EXPORT_GRAPH"
    /\ stages' = Enter(pc)
    /\ \E outcome \in {"ok", "fail", "partial"} :
          /\ pc' = After(pc)
          /\ errors' = IF outcome = "ok" THEN errors ELSE errors \cup {pc}
          /\ IF outcome = "fail"
             THEN UNCHANGED <<dir, writes>>
             ELSE /\ dir' = [dir EXCEPT ![F_onnx] = IF outcome = "ok" THEN Onnx ELSE Partial]
                  /\ writes' = Wrote(F_onnx, "export")
    /\ UNCHANGED <<run, startDir, max_len, task, resolved, lookups, vocab,
                   fallback, nativeOutcome, fallbackOutcome>>

\* lines 49-55: export(...) writes encoder.onnx; when it raises, the file is
\* untouched or cut short
ExportGraph ==
    /\ pc = "EXPORT_GRAPH"
    /\ stages' = Enter(pc)
    /\ \E outcome \in {"ok", "fail", "partial"} :
          /\ IF outcome = "ok" THEN pc' = After(pc) /\ UNCHANGED errors
                               ELSE Abort(pc)
          /\ IF outcome = "fail"
             THEN UNCHANGED <<dir, writes>>
             ELSE /\ dir' = [dir EXCEPT ![F_onnx] = IF outcome = "ok" THEN Onnx ELSE Partial]
                  /\ writes' = Wrote(F_onnx, "export")
    /\ UNCHANGED <<run, startDir, max_len, task, resolved, lookups, vocab,
                   fallback, nativeOutcome, fallbackOutcome>>

NativeOrder == <<F_cfg, F_special, F_vocab, F_tok>>

NativeWrites(W) ==
    LET fs == SelectSeq(NativeOrder, LAMBDA f : f \in W)
    IN  [i \in 1..Len(fs) |-> [file |-> fs[i], by |-> "native"]]

\* The files save_pretrained wrote in the current run
NativeWritten == {writes[i].file : i \in {j \in DOMAIN writes : writes[j].by = "native"}}

\* Variant without the try/except around save_pretrained.
SaveNativeUncaught ==
    /\ pc = "SAVE_NATIVE"
    /\ stages' = Enter(pc)
    /\ \E o \in NativeOutcomes :
          /\ nativeOutcome = NoOutcome \/ o = nativeOutcome
          /\ nativeOutcome' = o
          /\ dir' = [f \in FileNames |-> IF f \in o.files THEN Native(f) ELSE dir[f]]
          /\ writes' = writes \o NativeWrites(o.files)
          /\ IF o.ok THEN pc' = After(pc) /\ UNCHANGED errors
                     ELSE Abort(pc)
    /\ UNCHANGED <<run, startDir, max_len, task, resolved, lookups, vocab,
                   fallback, fallbackOutcome>>

\* lines 58-62: tokenizer.save_pretrained(out_dir) inside try/except Exception.
\* The tokenizer object and the host are the same when the script is started
\* again, so a later run meets the outcome the first run met.
SaveNative ==
    /\ pc = "SAVE_NATIVE"
    /\ stages' = Enter(pc)
    /\ \E o \in NativeOutcomes :
          /\ nativeOutcome = NoOutcome \/ o = nativeOutcome
          /\ nativeOutcome' = o
          /\ dir' = [f \in FileNames |-> IF f \in o.files THEN Native(f) ELSE dir[f]]
          /\ writes' = writes \o NativeWrites(o.files)
          /\ errors' = IF o.ok THEN errors ELSE errors \cup {pc}
    /\ pc' = After(pc)
    /\ UNCHANGED <<run, startDir, max_len, task, resolved, lookups, vocab,
                   fallback, fallbackOutcome>>

\* lines 65-95: if tokenizer.json is missing, build it from vocab.txt; every
\* exception of the block is caught.  When tokenizer_fast.save raises after
\* creating the file, the file stays as far as it was written: the except
\* clause only prints.
EnsureTokenizerJson ==
    /\ pc = "ENSURE_TOKENIZER_JSON"
    /\ stages' = Enter(pc)
    /\ pc' = After(pc)
    /\ IF Exists(dir, F_tok)
       THEN UNCHANGED <<dir, vocab, fallback, writes, errors, fallbackOutcome>>
       ELSE \E o \in FallbackOutcomes :
              /\ fallbackOutcome = "unset" \/ o = fallbackOutcome
              /\ fallbackOutcome' = o
              /\ IF ~Exists(dir, F_vocab)
                 THEN /\ fallback' = "skipped"
                      /\ errors' = IF o = "early" THEN errors \cup {pc} ELSE errors
                      /\ UNCHANGED <<dir, vocab, writes>>
                 ELSE CASE o = "ok" ->
                             /\ vocab' = LoadVocab(dir[F_vocab].lines)
                             /\ dir' = [dir EXCEPT ![F_tok] =
                                          FallbackTokenizerJson(TrainFromIterator(
                                              LoadVocab(dir[F_vocab].lines)))]
                             /\ writes' = Wrote(F_tok, "fallback")
                             /\ fallback' = "ok"
                             /\ UNCHANGED errors
                        [] o = "early" ->
                             /\ fallback' = "failed"
                             /\ errors' = errors \cup {pc}
                             /\ UNCHANGED <<dir, vocab, writes>>
                        [] o = "partial" ->
                             /\ vocab' = LoadVocab(dir[F_vocab].lines)
                             /\ dir' = [dir EXCEPT ![F_tok] = Partial]
                             /\ writes' = Wrote(F_tok, "fallback")
                             /\ fallback' = "failed"
                             /\ errors' = errors \cup {pc}
    /\ UNCHANGED <<run, startDir, max_len, task, resolved, lookups, nativeOutcome>>

\* lines 98-106
EnsureTokCfg ==
    /\ pc = "ENSURE_TOK_CFG"
    /\ stages' = Enter(pc)
    /\ pc' = After(pc)
    /\ IF ~Exists(dir, F_cfg)
       THEN /\ dir' = [dir EXCEPT ![F_cfg] = CfgPayload(max_len)]
            /\ writes' = Wrote(F_cfg, "cfg")
       ELSE UNCHANGED <<dir, writes>>
    /\ UNCHANGED <<run, startDir, max_len, task, resolved, lookups, vocab,
                   fallback, errors, nativeOutcome, fallbackOutcome>>

\* Variant that writes the map without looking for the file.
EnsureSpecialMapUngated ==
    /\ pc = "ENSURE_SPECIAL_MAP"
    /\ stages' = Enter(pc)
    /\ pc' = After(pc)
    /\ dir' = [dir EXCEPT ![F_special] = SpecialMapPayload]
    /\ writes' = Wrote(F_special, "special")
    /\ UNCHANGED <<run, startDir, max_len, task, resolved, lookups, vocab,
                   fallback, errors, nativeOutcome, fallbackOutcome>>

\* lines 108-118
EnsureSpecialMap ==
    /\ pc = "ENSURE_SPECIAL_MAP"
    /\ stages' = Enter(pc)
    /\ pc' = After(pc)
    /\ IF ~Exists(dir, F_special)
       THEN /\ dir' = [dir EXCEPT ![F_special] = SpecialMapPayload]
            /\ writes' = Wrote(F_special, "special")
       ELSE UNCHANGED <<dir, writes>>
    /\ UNCHANGED <<run, startDir, max_len, task, resolved, lookups, vocab,
                   fallback, errors, nativeOutcome, fallbackOutcome>>

\* lines 121-135
WriteManifest ==
    /\ pc = "WRITE_MANIFEST"
    /\ stages' = Enter(pc)
    /\ pc' = After(pc)
    /\ dir' = [dir EXCEPT ![F_meta] = Meta(dir, task)]
    /\ writes' = Wrote(F_meta, "manifest")
    /\ UNCHANGED <<run, startDir, max_len, task, resolved, lookups, vocab,
                   fallback, errors, nativeOutcome, fallbackOutcome>>

\* The script is started again on the directory the finished run left
\* (lines 16-29 of the new process).
Rerun ==
    /\ pc = "DONE"
    /\ run < MaxRuns
    /\ run' = run + 1
    /\ pc' = "LOAD_CHECKPOINT"
    /\ startDir' = dir
    /\ task' = "default"
    /\ resolved' = "none"
    /\ lookups' = <<>>
    /\ vocab' = EmptyVocab
    /\ fallback' = "none"
    /\ stages' = <<>>
    /\ writes' = <<>>
    /\ errors' = {}
    /\ UNCHANGED <<dir, max_len, nativeOutcome, fallbackOutcome>>

Next ==
    \/ LoadCheckpoint
    \/ ResolveConfig
    \/ BuildDummyInputs
    \/ ExportGraph
    \/ SaveNative
    \/ EnsureTokenizerJson
    \/ EnsureTokCfg
    \/ EnsureSpecialMap
    \/ WriteManifest
    \/ Rerun

Spec == Init /\ [][Next]_vars

----------------------------------------------------------------------------
(* Vocabulary loading on its own: every file of at most MaxLines lines of  *)
(* at most MaxLineLen characters over a two-letter alphabet with blanks.   *)

LineChars == {"a", "b", " "}

RECURSIVE SeqsUpTo(_, _)
SeqsUpTo(S, n) ==
    IF n = 0 THEN {<<>>}
    ELSE LET shorter == SeqsUpTo(S, n - 1)
         IN  shorter \cup {Append(s, x) : s \in shorter, x \in S}

AllLines == SeqsUpTo(LineChars, MaxLineLen)

AllFiles == SeqsUpTo(AllLines, MaxLines)

InitVocab ==
    /\ pc = "ENSURE_TOKENIZER_JSON"
    /\ run = 1
    /\ \E lines \in AllFiles :
          dir = [f \in FileNames |-> IF f = F_vocab THEN VocabTxt(lines) ELSE Absent]
    /\ startDir = dir
    /\ max_len = DefaultMaxLen
    /\ task = "default"
    /\ resolved = "default"
    /\ lookups = <<"default">>
    /\ vocab = EmptyVocab
    /\ fallback = "none"
    /\ stages = <<>>
    /\ writes = <<>>
    /\ errors = {}
    /\ nativeOutcome = NoOutcome
    /\ fallbackOutcome = "unset"

\* lines 78-82 alone: the loop that fills `vocab`
VocabularyLoad ==
    /\ pc = "ENSURE_TOKENIZER_JSON"
    /\ fallback = "none"
    /\ vocab' = LoadVocab(dir[F_vocab].lines)
    /\ fallback' = "loaded"
    /\ UNCHANGED <<pc, run, dir, startDir, max_len, task, resolved, lookups,
                   stages, writes, errors, nativeOutcome, fallbackOutcome>>

NextVocab == VocabularyLoad

SpecVocab == InitVocab /\ [][NextVocab]_vars

----------------------------------------------------------------------------
(* Properties *)

FatalSteps == {"LOAD_CHECKPOINT", "RESOLVE_CONFIG", "BUILD_DUMMY_INPUTS", "EXPORT_GRAPH"}

StageOrder ==
    << "LOAD_CHECKPOINT", "RESOLVE_CONFIG", "BUILD_DUMMY_INPUTS", "EXPORT_GRAPH",
       "RESOLVE_TOKENIZER_ARTIFACTS", "WRITE_MANIFEST" >>

IsPrefix(s, t) == Len(s) <= Len(t) /\ s = SubSeq(t, 1, Len(s))

Indices(v) == {v[t] : t \in DOMAIN v}

\* positions of the lines of a file that are not empty once trimmed
Kept(lines) == {i \in 1..Len(lines) : Strip(lines[i]) # <<>>}

Max(S) == CHOOSE x \in S : \A y \in S : y <= x

\* C1, as stated: a vocabulary file with N non-empty trimmed lines loads to a
\* mapping of exactly N entries whose indices are exactly 0..N-1; empty
\* lines do not consume an index.
C1_DenseIndices ==
    fallback = "loaded" =>
        LET N == Cardinality(Kept(dir[F_vocab].lines)) IN
        /\ Cardinality(DOMAIN vocab) = N
        /\ Indices(vocab) = 0..(N - 1)

\* C1, amended: the mapping holds exactly the distinct non-empty trimmed
\* lines, each at the 0-based position of its last occurrence among ALL
\* lines of the file (an empty line is skipped but consumes an index); when
\* no line is empty and no token occurs twice, there are exactly N entries
\* and the indices are 0..N-1.
C1_LineNumberIndices ==
    fallback = "loaded" =>
        LET lines == dir[F_vocab].lines
            kept  == Kept(lines)
            N     == Cardinality(kept)
        IN  /\ DOMAIN vocab = {Strip(lines[i]) : i \in kept}
            /\ \A t \in DOMAIN vocab :
                  vocab[t] = Max({i \in kept : Strip(lines[i]) = t}) - 1
            /\ (/\ N = Len(lines)
                /\ \A i, j \in kept : Strip(lines[i]) = Strip(lines[j]) => i = j)
               => /\ Cardinality(DOMAIN vocab) = N
                  /\ Indices(vocab) = 0..(N - 1)

\* C1 witness: a file with an empty line ahead of a token has been loaded.
C1_Witness ==
    /\ fallback = "loaded"
    /\ \E i, j \in 1..Len(dir[F_vocab].lines) :
          /\ i < j
          /\ i \notin Kept(dir[F_vocab].lines)
          /\ j \in Kept(dir[F_vocab].lines)
          /\ vocab[Strip(dir[F_vocab].lines[j])] = j - 1

\* C2: when a run has completed, the manifest names tokenizer.json exactly
\* when that file exists in the output directory, and holds null otherwise.
C2_ManifestReflectsTokenizer ==
    pc = "DONE" =>
        /\ dir[F_meta].kind = "meta"
        /\ (dir[F_meta].files.tokenizer = F_tok <=> Exists(dir, F_tok))
        /\ (~Exists(dir, F_tok) => dir[F_meta].files.tokenizer = "null")

\* C2 witness: a run whose native save failed and that found no vocab.txt
\* has completed with a null tokenizer entry.
C2_Witness ==
    /\ pc = "DONE"
    /\ "SAVE_NATIVE" \in errors
    /\ fallback = "skipped"
    /\ ~Exists(dir, F_tok)
    /\ dir[F_meta].files.tokenizer = "null"

C4_NeverOverwrites ==
    pc = "DONE" => \A f \in Bundle : Exists(startDir, f) => dir[f] = startDir[f]

\* C4, amended: a bundle file present before a run keeps its content unless
\* save_pretrained writes it in that run; the fallback construction and the
\* two descriptor writes never touch a file that is present.
C4_OnlyNativeSaveOverwrites ==
    \A f \in Bundle :
        (Exists(startDir, f) /\ f \notin NativeWritten) => dir[f] = startDir[f]

\* C4 witness: a run whose native save failed has completed, an earlier
\* special_tokens_map.json is intact and the missing tokenizer_config.json
\* was written.
C4_Witness ==
    /\ pc = "DONE"
    /\ "SAVE_NATIVE" \in errors
    /\ startDir[F_special] = Old
    /\ dir[F_special] = Old
    /\ startDir[F_cfg] = Absent
    /\ dir[F_cfg] = CfgPayload(max_len)

\* C5: the lookup under "sequence-classification" is made only after the
\* primary lookup raised KeyError; a successful primary lookup is used
\* without a second lookup; when no lookup succeeds the run aborts in
\* RESOLVE_CONFIG with nothing written.
C5_ConfigResolution ==
    /\ lookups \in {<<>>, <<task>>, <<task, SecondaryTask>>}
    /\ (Len(lookups) = 2 => "PRIMARY_KeyError" \in errors)
    /\ (lookups # <<>> /\ errors \cap {"PRIMARY_KeyError", "PRIMARY_OtherError"} = {}
          => resolved = task /\ lookups = <<task>>)
    /\ (lookups # <<>> /\ resolved = "none"
          => /\ pc = "ABORTED"
             /\ "RESOLVE_CONFIG" \in errors
             /\ writes = <<>>
             /\ dir = startDir
             /\ stages = <<"LOAD_CHECKPOINT", "RESOLVE_CONFIG">>)

\* C5 witness: both lookups failed and the run is aborted.
C5_Witness ==
    /\ pc = "ABORTED"
    /\ lookups = <<task, SecondaryTask>>
    /\ resolved = "none"

\* C6: once the first four stages have succeeded nothing aborts the run, and
\* the completed run has tokenizer_config.json, special_tokens_map.json and
\* the manifest it wrote, with exit code 0.
C6_TokenizerFailuresNotFatal ==
    /\ (pc = "ABORTED" => errors \cap FatalSteps # {})
    /\ (pc = "DONE" =>
          /\ Exists(dir, F_cfg)
          /\ Exists(dir, F_special)
          /\ writes[Len(writes)] = [file |-> F_meta, by |-> "manifest"]
          /\ dir[F_meta].kind = "meta"
          /\ ExitCode = 0)

\* C6 witness: a run in which save_pretrained and the fallback construction
\* both raised has completed.
C6_Witness ==
    /\ pc = "DONE"
    /\ {"SAVE_NATIVE", "ENSURE_TOKENIZER_JSON"} \subseteq errors
    /\ fallback = "failed"
    /\ Exists(dir, F_cfg)
    /\ Exists(dir, F_special)

\* C7: the stages are entered in the fixed order without repetition;
\* metadata.json is the last file a run writes and is written once; a
\* failure in one of the first four stages aborts the run, which then has
\* written no tokenizer artifact and no manifest.
C7_StageOrder ==
    /\ IsPrefix(stages, StageOrder)
    /\ \A i \in DOMAIN writes : writes[i].file = F_meta => i = Len(writes)
    /\ (pc = "DONE" => writes # <<>> /\ writes[Len(writes)].file = F_meta)
    /\ (errors \cap FatalSteps # {} =>
          /\ pc = "ABORTED"
          /\ \A i \in DOMAIN writes : writes[i].file = F_onnx)

\* C7 witness: the export failed after starting the graph file.
C7_Witness ==
    /\ pc = "ABORTED"
    /\ "EXPORT_GRAPH" \in errors
    /\ writes = <<[file |-> F_onnx, by |-> "export"]>>

\* the index the written tokenizer.json can give a token
MayKeepIndex(tj, t, i) ==
    LET base == Cardinality(DOMAIN tj.vocab)
        n    == Cardinality(tj.tail)
    IN  \/ t \in DOMAIN tj.vocab /\ tj.vocab[t] = i
        \/ t \notin DOMAIN tj.vocab /\ t \in tj.tail /\ i \in base..(base + n - 1)
        \/ /\ t \notin DOMAIN tj.vocab
           /\ t \notin tj.tail
           /\ i \in (base + n)..(base + n + tj.room - 1)

ExampleVocab ==
    [t \in Range(ExampleLines) |->
        (CHOOSE i \in 1..Len(ExampleLines) : ExampleLines[i] = t) - 1]

\* C8: a tokenizer.json built by the fallback gives every token of the loaded
\* mapping the index it had there; for the five-line example the embedded
\* vocabulary is [UNK]:0 [CLS]:1 [SEP]:2 hello:3 world:4, the configuration
\* carries max_len and the special-token map the five roles.
C8_FallbackRoundTrip ==
    (pc = "DONE" /\ fallback = "ok") =>
        /\ \A t \in DOMAIN vocab : MayKeepIndex(dir[F_tok], t, vocab[t])
        /\ (/\ startDir[F_vocab] = VocabTxt(ExampleLines)
            /\ \A f \in FileNames \ {F_vocab} : ~Exists(startDir, f)
            /\ NativeWritten = {})
           => /\ dir[F_tok].vocab = ExampleVocab
              /\ dir[F_cfg] = CfgPayload(max_len)
              /\ dir[F_special] = SpecialMapPayload

\* C9: the fallback builder runs only when tokenizer.json is missing after
\* the native save and vocab.txt exists; without vocab.txt tokenizer.json
\* stays absent; after a failed construction no tokenizer.json exists; so
\* tokenizer.json exists after a run only if it existed before, the native
\* save wrote it or the construction completed.
C9_FallbackGating ==
    /\ (fallback \in {"ok", "failed"} =>
          /\ ~Exists(startDir, F_tok)
          /\ F_tok \notin NativeWritten
          /\ Exists(dir, F_vocab))
    /\ (fallback = "skipped" => ~Exists(dir, F_vocab) /\ ~Exists(dir, F_tok))
    /\ (fallback = "failed" => ~Exists(dir, F_tok))
    /\ (pc = "DONE" /\ Exists(dir, F_tok) =>
          \/ Exists(startDir, F_tok)
          \/ F_tok \in NativeWritten
          \/ fallback = "ok")

\* C10: the feature of the manifest is the task label under which the export
\* configuration was found.
C10_FeatureIsResolvedTask ==
    pc = "DONE" => dir[F_meta].feature = resolved

====
